---- MODULE Spec2Model ----
(***************************************************************************)
(* WMStats.RequestDataList: the request summary box of the WMStats T1     *)
(* HTML list view.  format(summary) assembles an HTML fragment from ten   *)
(* values of the summary, and WMStats.RequestDataList(data, containerDiv) *)
(* hands it to jQuery's .html() on the elements containerDiv selects.     *)
(*                                                                         *)
(* JavaScript values are records [t, n, s]: t is the type tag, n the      *)
(* number (for t = "number"), s the characters (for t = "string").        *)
(***************************************************************************)
EXTENDS Integers, Sequences, FiniteSets, TLC

VARIABLES
    content,    \* DOM: element -> its inner HTML
    htmlstr,    \* the global variable htmlstr (line 5 assigns it without var)
    call,       \* the latest invocation of WMStats.RequestDataList
    err,        \* how the latest invocation ended: "none" or the exception
    returned,   \* what format returned in the latest invocation
    pre,        \* history: content as it was when the latest invocation began
    lastOK      \* history: element -> latest invocation that wrote into it

vars == <<content, htmlstr, call, err, returned, pre, lastOK>>

---------------------------------------------------------------------------
(* JavaScript values *)

JSNum(k) == [t |-> "number", n |-> k, s |-> ""]
JSStr(str) == [t |-> "string", n |-> 0, s |-> str]
Undefined == [t |-> "undefined", n |-> 0, s |-> ""]
Null == [t |-> "null", n |-> 0, s |-> ""]

\* Faulty variant: renders a missing value as nothing at all.
JSToStringBlank(v) ==
    CASE v.t = "number" -> ToString(v.n)
      [] v.t = "string" -> v.s
      [] OTHER -> ""

\* ToString of the value on the right of a string "+" (lines 8 to 17).
JSToString(v) ==
    CASE v.t = "number" -> ToString(v.n)
      [] v.t = "string" -> v.s
      [] v.t = "undefined" -> "undefined"
      [] v.t = "null" -> "null"

---------------------------------------------------------------------------
(* Bounds and inputs *)

\* The counters of the generated summaries are shifted by 0 .. MaxShift tens.
MaxShift == 1

Accessors ==
    {"getWMBSTotalJobs", "getTotalCooloff", "getJobStatus",
     "getTotalFailure", "getTotalQueued"}

\* v[1..10] are the ten values in the order format reads them; other is
\* what getJobStatus answers for "canceled", a status format never asks for.
MkSummary(v, other, methods) ==
    [t |-> "object",
     summaryStruct |-> [t |-> "object", length |-> v[1],
                        totalEvents |-> v[2], processedEvents |-> v[3]],
     methods |-> methods,
     wmbsTotalJobs |-> v[4],
     totalCooloff |-> v[5],
     totalFailure |-> v[7],
     totalQueued |-> v[8],
     jobStatus |-> ("success" :> v[6]) @@ ("submit.running" :> v[9])
                   @@ ("submit.pending" :> v[10]) @@ ("canceled" :> other)]

NoStruct == [t |-> "undefined", length |-> Undefined,
             totalEvents |-> Undefined, processedEvents |-> Undefined]

Counters(shift) == [i \in 1..10 |-> JSNum(i + 10 * shift)]

\* The example of the documentation: 3, 100, 50, 10, 2, 8, 1, 4, 3, 2.
ExampleValues ==
    <<JSNum(3), JSNum(100), JSNum(50), JSNum(10), JSNum(2),
      JSNum(8), JSNum(1), JSNum(4), JSNum(3), JSNum(2)>>

ValidSummaries ==
    {MkSummary(Counters(k), JSNum(0), Accessors) : k \in 0..MaxShift}
    \cup {MkSummary(Counters(0), JSNum(7), Accessors),
          MkSummary(ExampleValues, JSNum(0), Accessors)}

\* The values that are no counter, each with the place (1..10) it is put at:
\* a field the struct lacks, an accessor that returns undefined, null, or text.
BadValues ==
    {<<1, Undefined>>, <<2, Undefined>>, <<3, Undefined>>, <<4, JSStr("n/a")>>,
     <<6, Null>>, <<8, Undefined>>, <<9, Undefined>>}

\* One of the ten values is absent, undefined, null or text.
BadValueSummaries ==
    {MkSummary([Counters(0) EXCEPT ![b[1]] = b[2]], JSNum(0), Accessors) :
        b \in BadValues}

\* One of the accessors is not there.
MissingAccessorSummaries ==
    {MkSummary(Counters(0), JSNum(0), Accessors \ {a}) : a \in Accessors}

\* summary.summaryStruct is not there.
NoStructSummary ==
    [MkSummary(Counters(0), JSNum(0), Accessors) EXCEPT !.summaryStruct = NoStruct]

\* data itself is undefined.
UndefinedSummary ==
    [MkSummary([i \in 1..10 |-> Undefined], Undefined, {})
        EXCEPT !.t = "undefined", !.summaryStruct = NoStruct]

Summaries ==
    ValidSummaries \cup BadValueSummaries \cup MissingAccessorSummaries
    \cup {NoStructSummary, UndefinedSummary}

Elements == {"e1", "e2"}

\* What containerDiv may be: a selector of one element, or of none.
Refs == {"#e1", "#e2", "#absent"}

\* What the elements of the page hold before the first render.
Initial(e) == IF e = "e1" THEN "" ELSE "<p>loading</p>"

---------------------------------------------------------------------------
(* format, line by line.  A line yields [err, str]: the exception it      *)
(* throws ("none" if it throws nothing) and the text it appends.          *)

Piece(str) == [err |-> "none", str |-> str]
Throw == [err |-> "TypeError", str |-> ""]

\* summary.summaryStruct.<field>: reading a property of undefined throws.
StructField(summary, field) ==
    IF summary.summaryStruct.t = "undefined" THEN Throw
    ELSE Piece(JSToString(
            CASE field = "length" -> summary.summaryStruct.length
              [] field = "totalEvents" -> summary.summaryStruct.totalEvents
              [] field = "processedEvents" -> summary.summaryStruct.processedEvents))

\* Faulty variant: treats a missing accessor as one that returns undefined.
CallAccessorLenient(summary, name, arg) ==
    IF name \notin summary.methods THEN Piece("undefined")
    ELSE Piece(JSToString(
            CASE name = "getWMBSTotalJobs" -> summary.wmbsTotalJobs
              [] name = "getTotalCooloff" -> summary.totalCooloff
              [] name = "getTotalFailure" -> summary.totalFailure
              [] name = "getTotalQueued" -> summary.totalQueued
              [] name = "getJobStatus" -> summary.jobStatus[arg]))

\* summary.<name>(arg): calling what is not a function throws.
CallAccessor(summary, name, arg) ==
    IF name \notin summary.methods THEN Throw
    ELSE Piece(JSToString(
            CASE name = "getWMBSTotalJobs" -> summary.wmbsTotalJobs
              [] name = "getTotalCooloff" -> summary.totalCooloff
              [] name = "getTotalFailure" -> summary.totalFailure
              [] name = "getTotalQueued" -> summary.totalQueued
              [] name = "getJobStatus" -> summary.jobStatus[arg]))

\* "<li> label: " + value + "</li>"
Item(label, value) ==
    IF value.err # "none" THEN value
    ELSE Piece("<li> " \o label \o ": " \o value.str \o "</li>")

Line4(summary) == IF summary.t = "undefined" THEN Throw ELSE Piece("")

\* Faulty variant: leaves the assignment out: htmlstr keeps what it held.
Line5Kept(h) == h.s

\* htmlstr = ""
Line5(h) == ""

Line6 == Piece("<div class='requestSummaryBox'>")
Line7 == Piece("<ul>")
Line8(summary) == Item("requests", StructField(summary, "length"))
Line9(summary) == Item("total events", StructField(summary, "totalEvents"))
Line10(summary) == Item("processed events", StructField(summary, "processedEvents"))
Line11(summary) == Item("created", CallAccessor(summary, "getWMBSTotalJobs", ""))
Line12(summary) == Item("cooloff", CallAccessor(summary, "getTotalCooloff", ""))
Line13(summary) == Item("success", CallAccessor(summary, "getJobStatus", "success"))

\* Faulty variant: reads the failure count from the wrong accessor.
Line14Queued(summary) == Item("failure", CallAccessor(summary, "getTotalQueued", ""))

Line14(summary) == Item("failure", CallAccessor(summary, "getTotalFailure", ""))
Line15(summary) == Item("queued", CallAccessor(summary, "getTotalQueued", ""))
Line16(summary) == Item("running", CallAccessor(summary, "getJobStatus", "submit.running"))

\* Faulty variant: writes the pending line twice.
Line17Twice(summary) ==
    LET one == Item("pending", CallAccessor(summary, "getJobStatus", "submit.pending"))
    IN  IF one.err # "none" THEN one ELSE Piece(one.str \o one.str)

Line17(summary) == Item("pending", CallAccessor(summary, "getJobStatus", "submit.pending"))
Line18 == Piece("</ul>")
Line19 == Piece("</div>")

\* The appending lines 6 to 19, in order.
Lines(summary) ==
    <<Line6, Line7, Line8(summary), Line9(summary), Line10(summary),
      Line11(summary), Line12(summary), Line13(summary), Line14(summary),
      Line15(summary), Line16(summary), Line17(summary), Line18, Line19>>

\* htmlstr += ... for lines[i..]: stops at the first line that throws.
RECURSIVE AppendLines(_, _, _)
AppendLines(lines, i, h) ==
    IF i > Len(lines) THEN [err |-> "none", htmlstr |-> h]
    ELSE IF lines[i].err # "none" THEN [err |-> lines[i].err, htmlstr |-> h]
    ELSE AppendLines(lines, i + 1, h \o lines[i].str)

\* format(summary), run with the global htmlstr holding h0: the exception,
\* the global htmlstr afterwards, and the value returned.
Format(summary, h0) ==
    IF Line4(summary).err # "none"
    THEN [err |-> Line4(summary).err, htmlstr |-> h0, ret |-> Undefined]
    ELSE LET run == AppendLines(Lines(summary), 1, Line5(h0))
         IN  [err |-> run.err,
              htmlstr |-> JSStr(run.htmlstr),
              ret |-> IF run.err = "none" THEN JSStr(run.htmlstr) ELSE Undefined]

---------------------------------------------------------------------------
(* WMStats.RequestDataList *)

\* Faulty variant: falls back to the first element when nothing matches.
ResolveFallback(containerDiv) ==
    LET found == {e \in Elements : containerDiv = "#" \o e}
    IN  IF found = {} THEN {"e1"} ELSE found

\* $(containerDiv): the elements the selector matches, possibly none.
Resolve(containerDiv) == {e \in Elements : containerDiv = "#" \o e}

\* Faulty variant: appends, as .append() would.
HtmlAppend(old, markup) == old \o markup

\* .html(markup) on one matched element: its inner HTML becomes markup.
Html(old, markup) == markup

\* Faulty variant: writes what was assembled even when format threw.
WritesAlways(run) == TRUE

\* .html() is called only if evaluating its argument threw nothing.
Writes(run) == run.err = "none"

Markup(run) == IF run.ret.t = "string" THEN run.ret.s ELSE run.htmlstr.s

\* $(containerDiv).html(format(data)): the selector is looked up, format
\* runs, and .html() is called unless format threw.
RequestDataList(data, containerDiv) ==
    \E target \in {Resolve(containerDiv)}, run \in {Format(data, htmlstr)} :
        /\ call' = [made |-> TRUE, data |-> data, containerDiv |-> containerDiv]
        /\ htmlstr' = run.htmlstr
        /\ err' = run.err
        /\ returned' = run.ret
        /\ pre' = content
        /\ content' = [e \in Elements |->
                          IF Writes(run) /\ e \in target
                          THEN Html(content[e], Markup(run))
                          ELSE content[e]]
        /\ lastOK' = [e \in Elements |->
                          IF run.err = "none" /\ e \in target
                          THEN [made |-> TRUE, data |-> data]
                          ELSE lastOK[e]]

Init ==
    /\ content = [e \in Elements |-> Initial(e)]
    /\ htmlstr = Undefined
    /\ call = [made |-> FALSE, data |-> UndefinedSummary, containerDiv |-> ""]
    /\ err = "none"
    /\ returned = Undefined
    /\ pre = [e \in Elements |-> Initial(e)]
    /\ lastOK = [e \in Elements |-> [made |-> FALSE, data |-> UndefinedSummary]]

Next == \E data \in Summaries, containerDiv \in Refs : RequestDataList(data, containerDiv)

Spec == Init /\ [][Next]_vars

---------------------------------------------------------------------------
(* Reading a fragment back: the texts of its list items, in order. *)

\* The least position >= i at which pat begins in str, or 0.
RECURSIVE IndexFrom(_, _, _)
IndexFrom(str, pat, i) ==
    IF i + Len(pat) - 1 > Len(str) THEN 0
    ELSE IF SubSeq(str, i, i + Len(pat) - 1) = pat THEN i
    ELSE IndexFrom(str, pat, i + 1)

StartsWith(str, pat) ==
    Len(pat) <= Len(str) /\ SubSeq(str, 1, Len(pat)) = pat

EndsWith(str, pat) ==
    Len(pat) <= Len(str) /\ SubSeq(str, Len(str) - Len(pat) + 1, Len(str)) = pat

\* An item's text without the blank that follows <li>.
Trim(str) ==
    IF Len(str) > 0 /\ SubSeq(str, 1, 1) = " " THEN SubSeq(str, 2, Len(str)) ELSE str

RECURSIVE ItemsFrom(_, _)
ItemsFrom(str, i) ==
    LET a == IndexFrom(str, "<li>", i)
        b == IF a = 0 THEN 0 ELSE IndexFrom(str, "</li>", a + 4)
    IN  IF a = 0 \/ b = 0 THEN <<>>
        ELSE <<Trim(SubSeq(str, a + 4, b - 1))>> \o ItemsFrom(str, b + 5)

ListItems(str) == ItemsFrom(str, 1)

\* The ten values of a summary, by the field or accessor that gives each.
TenValues(summary) ==
    <<summary.summaryStruct.length,
      summary.summaryStruct.totalEvents,
      summary.summaryStruct.processedEvents,
      summary.wmbsTotalJobs,
      summary.totalCooloff,
      summary.jobStatus["success"],
      summary.totalFailure,
      summary.totalQueued,
      summary.jobStatus["submit.running"],
      summary.jobStatus["submit.pending"]>>

Labels ==
    <<"requests", "total events", "processed events", "created", "cooloff",
      "success", "failure", "queued", "running", "pending">>

\* The text a value is shown as.
TextOf(v) ==
    CASE v.t = "number" -> ToString(v.n)
      [] v.t = "undefined" -> "undefined"
      [] v.t = "null" -> "null"
      [] OTHER -> v.s

LabeledItems(summary) ==
    [i \in 1..10 |-> Labels[i] \o ": " \o TextOf(TenValues(summary)[i])]

\* format reaches its return statement: the struct and every accessor exist.
Complete(summary) ==
    /\ summary.t = "object"
    /\ summary.summaryStruct.t = "object"
    /\ summary.methods = Accessors

Valid(summary) ==
    /\ Complete(summary)
    /\ \A i \in 1..10 : TenValues(summary)[i].t = "number"

MissingAccessor(summary) ==
    /\ summary.t = "object"
    /\ summary.summaryStruct.t = "object"
    /\ summary.methods # Accessors

HasNonRenderable(summary) ==
    /\ Complete(summary)
    /\ \E i \in 1..10 : TenValues(summary)[i].t # "number"

Target == Resolve(call.containerDiv)

\* The container reference of the latest invocation names no element.
NoMatch == \A e \in Elements : call.containerDiv # "#" \o e

Succeeded == call.made /\ err = "none"

---------------------------------------------------------------------------
(* Claims *)

\* C1: for every valid summary the fragment format returns, and so the
\* content of the container, lists the ten labeled values in the fixed
\* order, each taken from its own field or accessor, inside the
\* requestSummaryBox div and its ul.
C1_TenItemsInOrder ==
    (call.made /\ Valid(call.data)) =>
        /\ err = "none"
        /\ returned.t = "string"
        /\ ListItems(returned.s) = LabeledItems(call.data)
        /\ StartsWith(returned.s, "<div class='requestSummaryBox'><ul><li>")
        /\ EndsWith(returned.s, "</li></ul></div>")
        /\ \A e \in Target : ListItems(content[e]) = LabeledItems(call.data)

\* The example of the documentation has been rendered into e1.
C1_Witness ==
    /\ Succeeded
    /\ call.data = MkSummary(ExampleValues, JSNum(0), Accessors)
    /\ call.containerDiv = "#e1"
    /\ ListItems(content["e1"]) =
          <<"requests: 3", "total events: 100", "processed events: 50",
            "created: 10", "cooloff: 2", "success: 8", "failure: 1",
            "queued: 4", "running: 3", "pending: 2">>

\* C2: after a successful render the container holds exactly what format
\* returned, whatever it held before.
C2_Replaces ==
    Succeeded => \A e \in Target : content[e] = returned.s /\ returned.t = "string"

\* A render into a container that held other, non-empty content.
C2_Witness ==
    /\ Succeeded
    /\ \E e \in Target :
          /\ pre[e] # ""
          /\ pre[e] # content[e]
          /\ Len(ListItems(pre[e])) = 10
          /\ content[e] = returned.s

\* C3 as stated: a summary that lacks an accessor makes the render fail with
\* a RenderError and leaves the container as it was.
C3_RenderError ==
    (call.made /\ MissingAccessor(call.data)) =>
        err = "RenderError" /\ content = pre

\* C3 as amended: the failure is the TypeError of calling what is not a
\* function; format returns nothing and every container stays as it was.
C3_TypeErrorContainerKept ==
    (call.made /\ MissingAccessor(call.data)) =>
        err = "TypeError" /\ returned = Undefined /\ content = pre

\* A render that lacks an accessor, into a container an earlier render filled.
C3_Witness ==
    /\ call.made
    /\ MissingAccessor(call.data)
    /\ "getTotalQueued" \notin call.data.methods
    /\ \E e \in Target :
          /\ lastOK[e].made
          /\ Len(ListItems(content[e])) = 10

\* C4 as stated: a container reference that matches no element makes the
\* render fail with a TargetNotFoundError, and format does not complete.
C4_TargetNotFoundError ==
    (call.made /\ NoMatch) =>
        err = "TargetNotFoundError" /\ returned = Undefined

\* C4 as amended: a reference that matches no element raises no error of its
\* own and no container changes, but format still runs: for a summary it
\* accepts it returns the whole fragment, which stays in the global htmlstr.
C4_NoTargetNoWrite ==
    (call.made /\ NoMatch) =>
        /\ content = pre
        /\ err # "TargetNotFoundError"
        /\ Complete(call.data) =>
              /\ err = "none"
              /\ returned.t = "string"
              /\ ListItems(returned.s) = LabeledItems(call.data)
              /\ htmlstr = returned

\* A render of a valid summary towards a reference that matches nothing.
C4_Witness ==
    /\ Succeeded
    /\ NoMatch
    /\ Valid(call.data)
    /\ Len(ListItems(returned.s)) = 10

\* C5 as stated: a value that is no number makes the render fail with a
\* RenderError, and nothing is written.
C5_RenderError ==
    (call.made /\ HasNonRenderable(call.data)) =>
        err = "RenderError" /\ content = pre

\* C5 as amended: a value that is no number raises nothing; its textual form
\* (undefined, null, the text itself) is written into its list item.
C5_TextualFormWritten ==
    (call.made /\ HasNonRenderable(call.data)) =>
        /\ err = "none"
        /\ returned.t = "string"
        /\ ListItems(returned.s) = LabeledItems(call.data)
        /\ \A e \in Target : content[e] = returned.s

\* A summary whose struct lacks totalEvents has been rendered into a container.
C5_Witness ==
    /\ call.made
    /\ HasNonRenderable(call.data)
    /\ call.data.summaryStruct.totalEvents = Undefined
    /\ \E e \in Target : ListItems(content[e])[2] = "total events: undefined"

\* C6: rendering the same summary into the same container twice in a row
\* leaves the content the first render left.
C6_Idempotent ==
    [][(Succeeded /\ call'.data = call.data
            /\ call'.containerDiv = call.containerDiv /\ err' = "none")
        => content' = content]_vars

\* The latest render wrote into a container what that container already held.
C6_Witness ==
    /\ Succeeded
    /\ \E e \in Target :
          /\ lastOK[e].data = call.data
          /\ pre[e] = returned.s
          /\ content[e] = pre[e]

SameTen(a, b) == TenValues(a) = TenValues(b)

\* C7: renders of summaries with equal ten values give equal fragments,
\* whichever container each went to and whatever was rendered in between.
C7_Deterministic ==
    /\ \A e1, e2 \in Elements :
          (lastOK[e1].made /\ lastOK[e2].made
              /\ SameTen(lastOK[e1].data, lastOK[e2].data))
          => content[e1] = content[e2]
    /\ \A e \in Elements :
          (Succeeded /\ lastOK[e].made /\ SameTen(call.data, lastOK[e].data))
          => returned.s = content[e]

\* Two different summaries with equal ten values sit in the two containers,
\* and a third summary was rendered after them.
C7_Witness ==
    /\ lastOK["e1"].made
    /\ lastOK["e2"].made
    /\ lastOK["e1"].data # lastOK["e2"].data
    /\ SameTen(lastOK["e1"].data, lastOK["e2"].data)
    /\ Succeeded
    /\ Target = {}
    /\ ~SameTen(call.data, lastOK["e1"].data)
    /\ content["e1"] = content["e2"]

\* C8 as stated: the fragment is a list of exactly twelve labeled counters.
C8_TwelveCounters ==
    Succeeded => Len(ListItems(returned.s)) = 12

\* C8 as amended: the fragment is a list of exactly ten labeled counters,
\* under the ten labels.
C8_TenCounters ==
    Succeeded =>
        /\ Len(ListItems(returned.s)) = 10
        /\ \A i \in 1..10 :
              StartsWith(ListItems(returned.s)[i], Labels[i] \o ": ")

\* A fragment has been produced.
C8_Witness ==
    /\ Succeeded
    /\ returned.t = "string"
    /\ Len(returned.s) > 0
    /\ Len(ListItems(returned.s)) = 10

\* C9: a render changes the targeted container and nothing else: the other
\* containers keep their content and no global holds anything afterwards.
C9_OnlyContainerChanges ==
    call.made =>
        /\ \A e \in Elements \ Target : content[e] = pre[e]
        /\ htmlstr = Undefined

\* C10: every container holds format(s) of the latest successful render into
\* it, or its initial content if there was none; never a mix or a part.
C10_LastWriteWins ==
    \A e \in Elements :
        IF lastOK[e].made
        THEN /\ content[e] = Format(lastOK[e].data, Undefined).ret.s
             /\ ListItems(content[e]) = LabeledItems(lastOK[e].data)
        ELSE content[e] = Initial(e)

\* e1 holds a rendering and a later render into it failed; e2 was never
\* rendered into.
C10_Witness ==
    /\ lastOK["e1"].made
    /\ ~lastOK["e2"].made
    /\ call.made
    /\ call.containerDiv = "#e1"
    /\ err = "TypeError"
    /\ Len(ListItems(pre["e1"])) = 10
    /\ content["e2"] = Initial("e2")

====
